---------------------------- MODULE Spec2Model ----------------------------
(***************************************************************************)
(* The two command-line scripts of the recipe-chatbot HW-demo workflow:    *)
(*                                                                         *)
(*   scripts/generate_traces.py  (Trace Generator): load the query file,   *)
(*       select the demo queries, send each through the agent three times  *)
(*       and summarise;                                                    *)
(*   scripts/create_dataset.py   (Dataset Builder): fetch the recorded     *)
(*       traces, extract query / dietary restriction / response from each  *)
(*       and upload the valid ones as dataset items.                       *)
(*                                                                         *)
(* Encoding of Python values.  Opaque text (responses, error texts,        *)
(* restriction labels, catalog queries) is a TLA+ string, "" being the     *)
(* empty str.  Text the code inspects character by character (trace names, *)
(* the user query of a trace) is a sequence of one-character strings.      *)
(* A loosely typed value (trace.input, trace.output, a message entry) is a *)
(* record with a type tag t and the keys the code probes.  A call that can *)
(* raise returns a record with a flag  raised ; the external collaborators *)
(* (agent, observability platform) answer nondeterministically.            *)
(***************************************************************************)
EXTENDS Integers, Sequences, FiniteSets, TLC

VARIABLES
    \* ---- Trace Generator (generate_traces.py) ----
    queries_file,     \* the CSV at homeworks/hw3/data/dietary_queries.csv
    df,               \* main: the loaded catalog
    demo_queries,     \* main: the selected query records
    all_generations,  \* main: the generation requests, in processing order
    traces,           \* main: the accumulated TraceResults
    agent_calls,      \* every invocation of get_agent_response, in order
    gen_pc,           \* position of the Trace Generator
    summary,          \* main: the counts and the set printed at lines 140-150
    gen_ret,          \* main's return value ("unset" before it returns)
    exit_code,        \* the process exit code (-1 while running)
    \* ---- Dataset Builder (create_dataset.py) ----
    platform_traces,  \* the traces the platform holds, newest first
    demo_traces,      \* get_demo_traces: the value returned
    trace,            \* extract_trace_data: its argument
    item,             \* extract_trace_data: its outcome
    obs_fetches,      \* every get_observation call, in order
    entry,            \* which function the Dataset Builder run enters
    dataset_items,    \* main: the extracted items (None included)
    valid_items,      \* main: the items kept by the filter of line 179
    items,            \* create_langfuse_dataset: its parameter
    idx,              \* create_langfuse_dataset: loop position
    uploaded,         \* the dataset items the platform holds
    platform_calls,   \* every platform write call, in order, with its outcome
    reported,         \* the count printed at line 133 (-1: nothing printed)
    fn_ret,           \* create_langfuse_dataset: the value returned
    main_ret,         \* Dataset Builder main: the value returned
    ds_pc             \* position of the Dataset Builder

genVars == <<queries_file, df, demo_queries, all_generations, traces,
             agent_calls, gen_pc, summary, gen_ret, exit_code>>
dsVars == <<platform_traces, demo_traces, trace, item, obs_fetches, entry,
            dataset_items, valid_items, items, idx, uploaded, platform_calls,
            reported, fn_ret, main_ret, ds_pc>>
vars == <<genVars, dsVars>>

\* Sequences over S of length 0..n.
SeqsUpTo(S, n) == UNION {[1..k -> S] : k \in 0..n}

Min(a, b) == IF a <= b THEN a ELSE b

(***************************************************************************)
(*                     Trace Generator: generate_traces.py                 *)
(***************************************************************************)

\* ---- bounds of the inputs ----
MaxRows == 5          \* rows of a catalog handed to select_demo_queries
MaxAgentMsgs == 2     \* messages in one agent reply

\* ---- the query catalog ----
\* selected_ids, line 41.
selected_ids == <<26, 43, 46, 48>>

Row(i, q, r) == [id |-> i, query |-> q, dietary_restriction |-> r]

\* The rows a catalog is made of: one row per demo identifier, a row with
\* another identifier (7), and a second, different row for two of the demo
\* identifiers (a catalog may repeat an id).
Rows ==
    { Row(26, "sugar-free dessert", "sugar-free"),
      Row(43, "vegetarian lasagna", "vegetarian"),
      Row(46, "paleo breakfast", "paleo"),
      Row(48, "gluten-free pizza", "gluten-free"),
      Row(7, "vegan curry", "vegan"),
      Row(26, "second row with id 26", "keto"),
      Row(48, "second row with id 48", "vegan") }

Catalogs == SeqsUpTo(Rows, MaxRows)

\* Catalogs as the query file holds them: ids unique and ascending.
FileCatalogs ==
    {c \in Catalogs : \A k \in 1..(Len(c) - 1) : c[k].id < c[k + 1].id}

QueryFiles ==
    {[exists |-> FALSE, rows |-> <<>>]}
        \cup {[exists |-> TRUE, rows |-> c] : c \in FileCatalogs}

\* select_demo_queries, the loop of lines 44-51 over ids[k..].
RECURSIVE select_from(_, _)
select_from(rows, ids) ==
    IF ids = <<>> THEN <<>>
    ELSE LET query_row == SelectSeq(rows, LAMBDA r : r.id = Head(ids))
             rest == select_from(rows, Tail(ids))
         IN  IF query_row # <<>>
             THEN <<Row(query_row[1].id, query_row[1].query,
                        query_row[1].dietary_restriction)>> \o rest
             ELSE rest

\* A plausible slip: every matching row instead of iloc[0].
RECURSIVE select_from_all(_, _)
select_from_all(rows, ids) ==
    IF ids = <<>> THEN <<>>
    ELSE SelectSeq(rows, LAMBDA r : r.id = Head(ids))
            \o select_from_all(rows, Tail(ids))

select_demo_queries_all(rows) == select_from_all(rows, selected_ids)

\* select_demo_queries, lines 36-53.
select_demo_queries(rows) == select_from(rows, selected_ids)

\* ---- the agent collaborator, backend.utils.get_agent_response ----
Msg(r, c) == [role |-> r, content |-> c]

\* The messages an agent reply is made of.
AgentMessages ==
    { Msg("user", "the query"), Msg("system", "be helpful"),
      Msg("assistant", "Here's a recipe"), Msg("assistant", "Another recipe"),
      Msg("assistant", "") }

Returns(msgs) == [kind |-> "return", messages |-> msgs, text |-> ""]
Raises(txt) == [kind |-> "raise", messages |-> <<>>, text |-> txt]

\* str(e) of the exceptions the agent raises: Exception("boom") and an
\* exception built without a message, e.g. TimeoutError().
ExceptionTexts == {"boom", ""}

\* What one call of the agent can do: return a list of role/content
\* messages, or raise an Exception.
AgentOutcomes ==
    {Returns(m) : m \in SeqsUpTo(AgentMessages, MaxAgentMsgs)}
        \cup {Raises(t) : t \in ExceptionTexts}

\* The agent as the orchestration sees it: a call succeeds or fails.
MainOutcomes ==
    {Returns(<<Msg("assistant", "Here's a recipe")>>), Raises("boom")}

\* ---- generation requests ----
Request(q, has_n, n) ==
    [id |-> q.id, query |-> q.query,
     dietary_restriction |-> q.dietary_restriction,
     has_response_number |-> has_n, response_number |-> n]

\* query_data.get('response_number', 1), line 66.
get_response_number(query_data) ==
    IF query_data.has_response_number THEN query_data.response_number ELSE 1

\* The call of line 68 as the agent receives it, with what it did.
AgentCall(query_data, outcome) ==
    [messages |-> <<Msg("user", query_data.query)>>,
     metadata |-> [dietary_restriction |-> query_data.dietary_restriction,
                   response_number |-> get_response_number(query_data)],
     outcome |-> outcome]

\* A TraceResult; has_error says whether the dict has the key 'error'.
TraceResult(query_data, resp, ok, has_err, err) ==
    [query_id |-> query_data.id, query |-> query_data.query,
     dietary_restriction |-> query_data.dietary_restriction,
     response |-> resp, success |-> ok, has_error |-> has_err, error |-> err]

\* What a call of generate_trace does: return a value or raise.
Returned(v) == [raised |-> FALSE, value |-> v]

\* The loop of lines 71-75: the content of the first assistant message.
RECURSIVE first_assistant(_)
first_assistant(msgs) ==
    IF msgs = <<>> THEN ""
    ELSE IF Head(msgs).role = "assistant" THEN Head(msgs).content
    ELSE first_assistant(Tail(msgs))

\* A plausible slip: the loop without its break keeps the last assistant.
RECURSIVE last_assistant(_)
last_assistant(msgs) ==
    IF msgs = <<>> THEN ""
    ELSE IF Msg("assistant", msgs[Len(msgs)].content) = msgs[Len(msgs)]
         THEN msgs[Len(msgs)].content
    ELSE last_assistant(SubSeq(msgs, 1, Len(msgs) - 1))

generate_trace_no_break(query_data, outcome) ==
    IF outcome.kind = "return"
    THEN Returned(TraceResult(query_data, last_assistant(outcome.messages),
                              TRUE, FALSE, ""))
    ELSE Returned(TraceResult(query_data, "", FALSE, TRUE, outcome.text))

\* A plausible slip: no try/except around the agent call.
generate_trace_no_except(query_data, outcome) ==
    IF outcome.kind = "return"
    THEN Returned(TraceResult(query_data, first_assistant(outcome.messages),
                              TRUE, FALSE, ""))
    ELSE [raised |-> TRUE, value |-> TraceResult(query_data, "", FALSE, FALSE, "")]

\* generate_trace, lines 55-93, given what the agent does at line 68.
generate_trace(query_data, outcome) ==
    IF outcome.kind = "return"
    THEN Returned(TraceResult(query_data, first_assistant(outcome.messages),
                              TRUE, FALSE, ""))
    ELSE Returned(TraceResult(query_data, "", FALSE, TRUE, outcome.text))

\* ---- main, lines 95-156, and the script's exit, lines 158-164 ----
\* range(3), line 126.
ResponsesPerQuery == 3

\* The requests of lines 125-129 for the queries qs[k..].
RECURSIVE build_generations(_)
build_generations(qs) ==
    IF qs = <<>> THEN <<>>
    ELSE [i \in 1..ResponsesPerQuery |-> Request(Head(qs), TRUE, i)]
            \o build_generations(Tail(qs))

successful_traces(ts) == SelectSeq(ts, LAMBDA t : t.success)
failed_traces(ts) == SelectSeq(ts, LAMBDA t : ~t.success)
restrictions_covered(ts) ==
    {successful_traces(ts)[k].dietary_restriction :
        k \in 1..Len(successful_traces(ts))}

NoSummary == [successes |-> -1, failures |-> -1, restrictions |-> {}]

\* A plausible slip: success only when no request failed.
main_result_all(ts) ==
    IF Len(failed_traces(ts)) = 0 THEN "True" ELSE "False"

\* The return of line 156.
main_result(ts) ==
    IF Len(successful_traces(ts)) > 0 THEN "True" ELSE "False"

\* A plausible slip: the loop of line 131 gives up after a failed request.
more_to_generate_stop_on_failure(gens, ts) ==
    /\ Len(ts) < Len(gens)
    /\ (ts # <<>> => ts[Len(ts)].success)

\* Whether the loop of line 131 has a request left.
more_to_generate(gens, ts) == Len(ts) < Len(gens)

\* Lines 101-105 with load_dietary_queries, lines 25-34.
LoadQueries ==
    /\ gen_pc = "load"
    /\ IF queries_file.exists
       THEN /\ df' = queries_file.rows
            /\ gen_pc' = "select"
            /\ UNCHANGED gen_ret
       ELSE /\ gen_ret' = "False"
            /\ gen_pc' = "returned"
            /\ UNCHANGED df
    /\ UNCHANGED <<queries_file, demo_queries, all_generations, traces,
                   agent_calls, summary, exit_code>>
    /\ UNCHANGED dsVars

\* Line 108.
SelectQueries ==
    /\ gen_pc = "select"
    /\ demo_queries' = select_demo_queries(df)
    /\ gen_pc' = "build"
    /\ UNCHANGED <<queries_file, df, all_generations, traces, agent_calls,
                   summary, gen_ret, exit_code>>
    /\ UNCHANGED dsVars

\* Lines 121-129.
BuildGenerations ==
    /\ gen_pc = "build"
    /\ all_generations' = build_generations(demo_queries)
    /\ traces' = <<>>
    /\ gen_pc' = "generate"
    /\ UNCHANGED <<queries_file, df, demo_queries, agent_calls, summary,
                   gen_ret, exit_code>>
    /\ UNCHANGED dsVars

\* One iteration of the loop of lines 131-133: the next request goes through
\* generate_trace, whose agent call answers with one of  outcomes .  An
\* exception leaving generate_trace would leave main too.
GenerateStep(outcomes) ==
    /\ gen_pc = "generate"
    /\ more_to_generate(all_generations, traces)
    /\ \E outcome \in outcomes :
         LET generation_data == all_generations[Len(traces) + 1]
             res == generate_trace(generation_data, outcome)
         IN  /\ agent_calls' =
                    Append(agent_calls, AgentCall(generation_data, outcome))
             /\ IF res.raised
                THEN /\ gen_pc' = "crashed"
                     /\ exit_code' = 1
                     /\ UNCHANGED traces
                ELSE /\ traces' = Append(traces, res.value)
                     /\ UNCHANGED <<gen_pc, exit_code>>
    /\ UNCHANGED <<queries_file, df, demo_queries, all_generations, summary,
                   gen_ret>>
    /\ UNCHANGED dsVars

GenerateNext == GenerateStep(MainOutcomes)

\* Lines 135-156, once the loop is over.
Summarize ==
    /\ gen_pc = "generate"
    /\ ~more_to_generate(all_generations, traces)
    /\ summary' = [successes |-> Len(successful_traces(traces)),
                   failures |-> Len(failed_traces(traces)),
                   restrictions |-> restrictions_covered(traces)]
    /\ gen_ret' = main_result(traces)
    /\ gen_pc' = "returned"
    /\ UNCHANGED <<queries_file, df, demo_queries, all_generations, traces,
                   agent_calls, exit_code>>
    /\ UNCHANGED dsVars

\* Lines 158-164.
Exit ==
    /\ gen_pc = "returned"
    /\ exit_code' = IF gen_ret = "True" THEN 0 ELSE 1
    /\ gen_pc' = "exited"
    /\ UNCHANGED <<queries_file, df, demo_queries, all_generations, traces,
                   agent_calls, summary, gen_ret>>
    /\ UNCHANGED dsVars

\* generate_trace called on its own, with everything the agent can do.
CallGenerateTrace == GenerateStep(AgentOutcomes)

\* The requests handed to generate_trace: with a response_number 1..3, or
\* a bare query record without one.
Requests ==
    {Request(q, TRUE, n) : q \in Rows, n \in 1..ResponsesPerQuery}
        \cup {Request(q, FALSE, 0) : q \in Rows}

(***************************************************************************)
(*                     Dataset Builder: create_dataset.py                  *)
(***************************************************************************)

\* ---- text the code inspects, as sequences of characters ----
QueryPrefix ==
    <<"Q", "u", "e", "r", "y", ":">>
\* Trace names.
NameDemo ==
    <<"Q", "u", "e", "r", "y", ":", " ", "I", " ", "n", "e", "e", "d">>
NameBarePrefix ==
    <<"Q", "u", "e", "r", "y", ":">>
NameLower ==
    <<"q", "u", "e", "r", "y", ":", " ", "x">>
NameInner ==
    <<"M", "y", " ", "Q", "u", "e", "r", "y", ":", " ", "x">>
NameOther ==
    <<"c", "h", "a", "t">>
\* The keywords of lines 81-87.
KwGluten ==
    <<"g", "l", "u", "t", "e", "n">>
KwSugarFree ==
    <<"s", "u", "g", "a", "r", "-", "f", "r", "e", "e">>
KwVegetarian ==
    <<"v", "e", "g", "e", "t", "a", "r", "i", "a", "n">>
KwPaleo ==
    <<"p", "a", "l", "e", "o">>
\* User queries of recorded traces.
QGlutenDinner ==
    <<"I", " ", "n", "e", "e", "d", " ", "a", " ", "g", "l", "u", "t",
      "e", "n", "-", "f", "r", "e", "e", " ", "d", "i", "n", "n", "e", "r">>
QSugarVegetarian ==
    <<"S", "u", "g", "a", "r", "-", "F", "r", "e", "e", " ", "v", "e",
      "g", "e", "t", "a", "r", "i", "a", "n", " ", "c", "a", "k", "e">>
QPaleoGluten ==
    <<"p", "a", "l", "e", "o", ",", " ", "n", "o", " ", "G", "L", "U",
      "T", "E", "N">>
QVegetarianPaleo ==
    <<"V", "e", "g", "e", "t", "a", "r", "i", "a", "n", " ", "p", "a",
      "l", "e", "o", " ", "b", "o", "w", "l">>
QPaleo ==
    <<"P", "a", "l", "e", "o", " ", "b", "o", "w", "l">>
QSugarNoHyphen ==
    <<"s", "u", "g", "a", "r", " ", "f", "r", "e", "e", " ", "s", "o",
      "u", "p">>
TextOk ==
    <<"o", "k">>

UpperCase ==
    <<"A", "B", "C", "D", "E", "F", "G", "H", "I", "J", "K", "L", "M",
      "N", "O", "P", "Q", "R", "S", "T", "U", "V", "W", "X", "Y", "Z">>
LowerCase ==
    <<"a", "b", "c", "d", "e", "f", "g", "h", "i", "j", "k", "l", "m",
      "n", "o", "p", "q", "r", "s", "t", "u", "v", "w", "x", "y", "z">>

\* str.lower() on one character.
lower_char(c) ==
    IF \E k \in 1..Len(UpperCase) : UpperCase[k] = c
    THEN LowerCase[CHOOSE k \in 1..Len(UpperCase) : UpperCase[k] = c]
    ELSE c

\* str.lower(), line 80.
lower(s) == [k \in 1..Len(s) |-> lower_char(s[k])]

\* str.startswith, line 32.
startswith(s, prefix) ==
    /\ Len(s) >= Len(prefix)
    /\ SubSeq(s, 1, Len(prefix)) = prefix

\* The operator  in  on two strings, lines 81-87.
contains(s, w) ==
    \E k \in 1..(Len(s) - Len(w) + 1) : SubSeq(s, k, k + Len(w) - 1) = w

\* ---- bounds of the inputs ----
MaxStore == 22        \* traces the platform holds (long, mostly-demo stores)
MaxSmallStore == 3    \* traces the platform holds (stores of arbitrary names)
MaxTraceMsgs == 2     \* message entries in a trace's input
MaxItems == 4         \* items handed to the upload

\* ---- the values of a RemoteTrace ----
\* trace.name: None or a str.
NoName == [t |-> "None", s |-> <<>>]
Name(s) == [t |-> "str", s |-> s]

\* bool(v) of a name: None and "" are falsy.
truthy_name(n) == n.t = "str" /\ n.s # <<>>

\* A message entry of trace.input['messages']: a dict (with or without the
\* keys role and content) or something that is no dict.
DictEntry(has_r, r, has_c, c) ==
    [t |-> "dict", has_role |-> has_r, role |-> r,
     has_content |-> has_c, content |-> c]
StrEntry == [t |-> "str", has_role |-> FALSE, role |-> "",
             has_content |-> FALSE, content |-> <<>>]

\* trace.input: no such attribute, None, a list of messages, or a dict,
\* empty or not, with or without the key 'messages', whose value is a list
\* of entries or something that cannot be iterated (None).
Input(tag, is_empty, has_m, iter, es) ==
    [t |-> tag, empty |-> is_empty, has_messages |-> has_m,
     messages |-> [iterable |-> iter, entries |-> es]]
InputAbsent == Input("absent", TRUE, FALSE, FALSE, <<>>)
InputNone == Input("None", TRUE, FALSE, FALSE, <<>>)
InputList == Input("list", FALSE, FALSE, FALSE, <<>>)
InputEmptyDict == Input("dict", TRUE, FALSE, FALSE, <<>>)
InputOtherDict == Input("dict", FALSE, FALSE, FALSE, <<>>)
InputBadMessages == Input("dict", FALSE, TRUE, FALSE, <<>>)
InputMessages(es) == Input("dict", FALSE, TRUE, TRUE, es)

\* trace.output: no such attribute, None, a str, or a dict, empty or not,
\* with or without the key 'content'.
Output(tag, is_empty, has_c, c) ==
    [t |-> tag, empty |-> is_empty, has_content |-> has_c, content |-> c]
OutputAbsent == Output("absent", TRUE, FALSE, "")
OutputNone == Output("None", TRUE, FALSE, "")
OutputStr == Output("str", FALSE, FALSE, "")
OutputEmptyDict == Output("dict", TRUE, FALSE, "")
OutputOtherDict == Output("dict", FALSE, FALSE, "")
OutputContent(c) == Output("dict", FALSE, TRUE, c)

\* trace.observations: no such attribute, or a list of observation ids.
Observations(has, ids) == [present |-> has, ids |-> ids]

Trace(i, n, inp, out, obs) ==
    [id |-> i, name |-> n, input |-> inp, output |-> out, observations |-> obs]

\* hasattr(trace, a) and trace.a, for input and output (lines 49, 60).
truthy(v) == v.t \notin {"absent", "None"} /\ ~v.empty

\* ---- get_demo_traces, lines 16-42 ----
\* limit=20, line 25.
FetchLimit == 20
\* len(demo_traces) >= 12, line 34.
MaxDemoTraces == 12

\* fetch_traces(limit=20, order_by="timestamp.desc"), lines 24-27: the
\* platform answers with its most recent traces, newest first.
fetch_traces(store) == SubSeq(store, 1, Min(Len(store), FetchLimit))

\* The test of line 32.
is_demo_name(n) == truthy_name(n) /\ startswith(n.s, QueryPrefix)

\* The loop of lines 30-35 over data, demo_traces being what it has kept.
RECURSIVE filter_demo(_, _)
filter_demo(data, kept) ==
    IF data = <<>> THEN kept
    ELSE IF is_demo_name(Head(data).name)
         THEN IF Len(kept) + 1 >= MaxDemoTraces
              THEN Append(kept, Head(data))
              ELSE filter_demo(Tail(data), Append(kept, Head(data)))
         ELSE filter_demo(Tail(data), kept)

\* A plausible slip: the loop without the break of lines 34-35.
get_demo_traces_no_break(store, outcome) ==
    IF outcome = "raise"
    THEN Returned(<<>>)
    ELSE Returned(SelectSeq(fetch_traces(store),
                            LAMBDA t : is_demo_name(t.name)))

\* get_demo_traces given what the platform does: "ok", or "raise" when
\* Langfuse() or fetch_traces raises.
get_demo_traces(store, outcome) ==
    IF outcome = "raise"
    THEN Returned(<<>>)
    ELSE Returned(filter_demo(fetch_traces(store), <<>>))

FetchOutcomes == {"ok", "raise"}

\* A call of a platform operation, with its outcome.
PlatformCall(op, a, outcome) == [call |-> op, arg |-> a, outcome |-> outcome]

GetDemoTraces ==
    /\ ds_pc = "fetch"
    /\ \E outcome \in FetchOutcomes :
         LET res == get_demo_traces(platform_traces, outcome)
         IN  /\ platform_calls' =
                    Append(platform_calls,
                           PlatformCall("fetch_traces", FetchLimit, outcome))
             /\ IF res.raised
                THEN /\ ds_pc' = "crashed"
                     /\ UNCHANGED demo_traces
                ELSE /\ demo_traces' = res.value
                     /\ ds_pc' = "fetched"
    /\ UNCHANGED <<platform_traces, trace, item, obs_fetches, entry,
                   dataset_items, valid_items, items, idx, uploaded,
                   reported, fn_ret, main_ret>>
    /\ UNCHANGED genVars

\* ---- the stores get_demo_traces is run against ----
\* What a stored trace carries besides its id and name.
PlainTrace(i, n) ==
    Trace(i, n, InputMessages(<<>>), OutputContent("Here's a recipe"),
          Observations(TRUE, <<>>))

AllNames ==
    {NoName, Name(<<>>), Name(NameDemo), Name(NameBarePrefix),
     Name(NameLower), Name(NameInner), Name(NameOther)}

\* Names of traces that are not demo traces.
OddNames == {NoName, Name(NameInner)}

\* Stores of up to MaxSmallStore traces with any names.
SmallStores ==
    {[k \in 1..Len(ns) |-> PlainTrace(k, ns[k])] :
        ns \in SeqsUpTo(AllNames, MaxSmallStore)}

\* Stores of up to MaxStore traces, demo traces but for at most two (at
\* positions a and b; 0: none).
LongStores ==
    {[k \in 1..n |->
        PlainTrace(k, IF k = a THEN na ELSE IF k = b THEN nb
                      ELSE Name(NameDemo))] :
        n \in 0..MaxStore, a \in 0..MaxStore, b \in 0..MaxStore,
        na \in OddNames, nb \in OddNames}

\* Stores of up to MaxStore traces whose m newest traces are other traces,
\* the demo traces being older.
BuriedStores ==
    {[k \in 1..n |->
        PlainTrace(k, IF k <= m THEN Name(NameOther) ELSE Name(NameDemo))] :
        n \in 0..MaxStore, m \in 0..MaxStore}

Stores == SmallStores \cup LongStores \cup BuriedStores

\* ---- extract_trace_data, lines 44-99 ----
\* What get_observation(obs_id) does: raise, or return an observation whose
\* metadata is None, a str, or a dict, empty or not, with or without the
\* key 'dietary_restriction'.
Metadata(tag, is_empty, has_dr, dr) ==
    [t |-> tag, empty |-> is_empty, has_dr |-> has_dr, dr |-> dr]
ObsRaises == [kind |-> "raise", metadata |-> Metadata("None", TRUE, FALSE, "")]
ObsReturns(m) == [kind |-> "return", metadata |-> m]

ObservationOutcomes ==
    { ObsRaises,
      ObsReturns(Metadata("None", TRUE, FALSE, "")),
      ObsReturns(Metadata("str", FALSE, FALSE, "")),
      ObsReturns(Metadata("dict", TRUE, FALSE, "")),
      ObsReturns(Metadata("dict", FALSE, FALSE, "")),
      ObsReturns(Metadata("dict", FALSE, TRUE, "")),
      ObsReturns(Metadata("dict", FALSE, TRUE, "vegan")) }

\* The outcome of evaluating an expression: a value, or an exception.
Value(v) == [raised |-> FALSE, value |-> v]
Raised(v) == [raised |-> TRUE, value |-> v]

\* The loop of lines 53-56: msg.get raises on an entry that is no dict.
RECURSIVE scan_messages(_)
scan_messages(entries) ==
    IF entries = <<>> THEN Value(<<>>)
    ELSE LET msg == Head(entries)
         IN  IF msg.t # "dict" THEN Raised(<<>>)
             ELSE IF msg.has_role /\ msg.role = "user"
                  THEN Value(IF msg.has_content THEN msg.content ELSE <<>>)
                  ELSE scan_messages(Tail(entries))

\* Lines 48-56: the query, or the exception reading it raises.
read_query(tr) ==
    IF truthy(tr.input) /\ tr.input.t = "dict" /\ tr.input.has_messages
    THEN IF tr.input.messages.iterable
         THEN scan_messages(tr.input.messages.entries)
         ELSE Raised(<<>>)
    ELSE Value(<<>>)

\* Lines 59-61.
read_response(tr) ==
    IF truthy(tr.output) /\ tr.output.t = "dict" /\ tr.output.has_content
    THEN tr.output.content
    ELSE ""

\* Lines 65-68: the observation looked up, as a list of zero or one id.
observation_to_fetch(tr) ==
    IF tr.observations.present /\ tr.observations.ids # <<>>
    THEN <<tr.observations.ids[1]>>
    ELSE <<>>

\* Lines 69-76: the restriction read from the observation; anything raised
\* on the way (by the fetch, by .get on a metadata that is no dict) is
\* swallowed.
read_metadata(outcome) ==
    IF /\ outcome.kind = "return"
       /\ outcome.metadata.t = "dict"
       /\ ~outcome.metadata.empty
       /\ outcome.metadata.has_dr
    THEN outcome.metadata.dr
    ELSE ""

\* A plausible slip: the keywords tested in another order.
infer_restriction_reordered(query) ==
    LET query_lower == lower(query)
    IN  IF contains(query_lower, KwPaleo) THEN "paleo"
        ELSE IF contains(query_lower, KwVegetarian) THEN "vegetarian"
        ELSE IF contains(query_lower, KwSugarFree) THEN "sugar-free"
        ELSE IF contains(query_lower, KwGluten) THEN "gluten-free"
        ELSE ""

\* Lines 80-88.
infer_restriction(query) ==
    LET query_lower == lower(query)
    IN  IF contains(query_lower, KwGluten) THEN "gluten-free"
        ELSE IF contains(query_lower, KwSugarFree) THEN "sugar-free"
        ELSE IF contains(query_lower, KwVegetarian) THEN "vegetarian"
        ELSE IF contains(query_lower, KwPaleo) THEN "paleo"
        ELSE ""

\* An extracted item, or None.
Item(q, dr, resp, tid) ==
    [none |-> FALSE, query |-> q, dietary_restriction |-> dr,
     response |-> resp, trace_id |-> tid]
NoneItem ==
    [none |-> TRUE, query |-> <<>>, dietary_restriction |-> "",
     response |-> "", trace_id |-> 0]

\* What a call of extract_trace_data does: the value returned (raised says
\* whether an exception left the function instead) and the observations it
\* fetched.
Extracted(r, v, f) == [raised |-> r, value |-> v, fetches |-> f]

ObsFetch(id, outcome) == [obs_id |-> id, outcome |-> outcome]

\* The get_observation calls of lines 65-71.
fetches(tr, outcome) ==
    [k \in 1..Len(observation_to_fetch(tr)) |->
        ObsFetch(observation_to_fetch(tr)[k], outcome)]

\* A plausible slip: a message entry that is no dict is skipped instead of
\* ending the extraction.
extract_trace_data_lenient(tr, outcome) ==
    LET entries == SelectSeq(tr.input.messages.entries,
                             LAMBDA m : m.t = "dict")
        q == IF truthy(tr.input) /\ tr.input.t = "dict"
                  /\ tr.input.has_messages
             THEN scan_messages(entries).value
             ELSE <<>>
        from_obs == IF fetches(tr, outcome) # <<>>
                    THEN read_metadata(outcome) ELSE ""
        dr == IF from_obs = "" /\ q # <<>>
              THEN infer_restriction(q) ELSE from_obs
    IN  Extracted(FALSE, Item(q, dr, read_response(tr), tr.id),
                  fetches(tr, outcome))

\* extract_trace_data given what get_observation does when it is called.
\* An exception reading the query (lines 51-55) reaches the handler of
\* lines 97-99 before any observation is fetched.
extract_trace_data(tr, outcome) ==
    LET q == read_query(tr)
        from_obs == IF fetches(tr, outcome) # <<>>
                    THEN read_metadata(outcome) ELSE ""
        dr == IF from_obs = "" /\ q.value # <<>>
              THEN infer_restriction(q.value) ELSE from_obs
    IN  IF q.raised
        THEN Extracted(FALSE, NoneItem, <<>>)
        ELSE Extracted(FALSE, Item(q.value, dr, read_response(tr), tr.id),
                       fetches(tr, outcome))

ExtractTraceData ==
    /\ ds_pc = "extract"
    /\ \E outcome \in ObservationOutcomes :
         LET res == extract_trace_data(trace, outcome)
         IN  /\ obs_fetches' = obs_fetches \o res.fetches
             /\ IF res.raised
                THEN /\ ds_pc' = "crashed"
                     /\ UNCHANGED item
                ELSE /\ item' = res.value
                     /\ ds_pc' = "extracted"
    /\ UNCHANGED <<platform_traces, demo_traces, trace, entry, dataset_items,
                   valid_items, items, idx, uploaded, platform_calls,
                   reported, fn_ret, main_ret>>
    /\ UNCHANGED genVars

\* ---- the traces extract_trace_data is run on ----
MessageEntries ==
    { DictEntry(TRUE, "user", TRUE, QGlutenDinner),
      DictEntry(TRUE, "user", TRUE, QSugarVegetarian),
      DictEntry(TRUE, "user", TRUE, QPaleoGluten),
      DictEntry(TRUE, "user", TRUE, QVegetarianPaleo),
      DictEntry(TRUE, "user", TRUE, QPaleo),
      DictEntry(TRUE, "user", TRUE, QSugarNoHyphen),
      DictEntry(TRUE, "user", TRUE, <<>>),
      DictEntry(TRUE, "user", FALSE, <<>>),
      DictEntry(TRUE, "assistant", TRUE, TextOk),
      DictEntry(FALSE, "", TRUE, TextOk),
      StrEntry }

TraceInputs ==
    {InputAbsent, InputNone, InputList, InputEmptyDict, InputOtherDict,
     InputBadMessages}
        \cup {InputMessages(es) : es \in SeqsUpTo(MessageEntries, MaxTraceMsgs)}

TraceOutputs ==
    {OutputAbsent, OutputNone, OutputStr, OutputEmptyDict, OutputOtherDict,
     OutputContent(""), OutputContent("Here's a recipe")}

TraceObservations ==
    {Observations(FALSE, <<>>), Observations(TRUE, <<>>),
     Observations(TRUE, <<1>>), Observations(TRUE, <<1, 2>>)}

ExtractTraces ==
    {Trace(1, Name(NameDemo), inp, out, obs) :
        inp \in TraceInputs, out \in TraceOutputs, obs \in TraceObservations}

\* ---- create_langfuse_dataset, lines 101-140, and main, lines 178-198 ----
\* The test of lines 118, 133 and 179: item and item['response'].
is_valid(it) == ~it.none /\ it.response # ""

\* A plausible slip: the test without its response part.
should_upload_any(it) == ~it.none

\* The test of line 118.
should_upload(it) == is_valid(it)

\* The list comprehension of lines 133 and 179.
valid_of(its) == SelectSeq(its, is_valid)

\* The arguments of create_dataset_item, lines 119-131.
DatasetItem(it) ==
    [input |-> [query |-> it.query,
                dietary_restriction |-> it.dietary_restriction,
                response |-> it.response],
     expected_output |-> "None",
     metadata |-> [source_trace_id |-> it.trace_id,
                   dietary_restriction |-> it.dietary_restriction]]

\* What a platform write call does.
WriteOutcomes == {"ok", "raise"}

\* Lines 178-184 and the call of line 190.
MainFilter ==
    /\ ds_pc = "main_filter"
    /\ valid_items' = valid_of(dataset_items)
    /\ IF Len(valid_of(dataset_items)) = 0
       THEN /\ main_ret' = "False"
            /\ ds_pc' = "done"
            /\ UNCHANGED items
       ELSE /\ items' = valid_of(dataset_items)
            /\ ds_pc' = "create"
            /\ UNCHANGED main_ret
    /\ UNCHANGED <<platform_traces, demo_traces, trace, item, obs_fetches,
                   entry, dataset_items, idx, uploaded, platform_calls,
                   reported, fn_ret>>
    /\ UNCHANGED genVars

\* A plausible slip: the handler of lines 138-140 undoes the uploads.
uploaded_after_failure_rollback(up) == <<>>

\* The platform's dataset items once create_langfuse_dataset has caught an
\* exception, lines 138-140: nothing is undone.
uploaded_after_failure(up) == up

\* Lines 104-114: Langfuse() and create_dataset.
CreateDataset ==
    /\ ds_pc = "create"
    /\ \E outcome \in WriteOutcomes :
         /\ platform_calls' =
                Append(platform_calls, PlatformCall("create_dataset", 0, outcome))
         /\ IF outcome = "ok"
            THEN /\ idx' = 1
                 /\ ds_pc' = "upload"
                 /\ UNCHANGED <<fn_ret, uploaded>>
            ELSE /\ fn_ret' = "None"
                 /\ uploaded' = uploaded_after_failure(uploaded)
                 /\ ds_pc' = "returned"
                 /\ UNCHANGED idx
    /\ UNCHANGED <<platform_traces, demo_traces, trace, item, obs_fetches,
                   entry, dataset_items, valid_items, items, reported,
                   main_ret>>
    /\ UNCHANGED genVars

\* One iteration of the loop of lines 117-131.
UploadItem ==
    /\ ds_pc = "upload"
    /\ idx <= Len(items)
    /\ IF should_upload(items[idx])
       THEN \E outcome \in WriteOutcomes :
              /\ platform_calls' =
                     Append(platform_calls,
                            PlatformCall("create_dataset_item", idx, outcome))
              /\ IF outcome = "ok"
                 THEN /\ uploaded' = Append(uploaded, DatasetItem(items[idx]))
                      /\ idx' = idx + 1
                      /\ UNCHANGED <<fn_ret, ds_pc>>
                 ELSE /\ fn_ret' = "None"
                      /\ uploaded' = uploaded_after_failure(uploaded)
                      /\ ds_pc' = "returned"
                      /\ UNCHANGED idx
       ELSE /\ idx' = idx + 1
            /\ UNCHANGED <<platform_calls, uploaded, fn_ret, ds_pc>>
    /\ UNCHANGED <<platform_traces, demo_traces, trace, item, obs_fetches,
                   entry, dataset_items, valid_items, items, reported,
                   main_ret>>
    /\ UNCHANGED genVars

\* Lines 133-136, once the loop is over.
ReportDataset ==
    /\ ds_pc = "upload"
    /\ idx > Len(items)
    /\ reported' = Len(valid_of(items))
    /\ fn_ret' = "dataset"
    /\ ds_pc' = "returned"
    /\ UNCHANGED <<platform_traces, demo_traces, trace, item, obs_fetches,
                   entry, dataset_items, valid_items, items, idx, uploaded,
                   platform_calls, main_ret>>
    /\ UNCHANGED genVars

\* Lines 191-198, back in main.
MainFinish ==
    /\ ds_pc = "returned"
    /\ entry = "main"
    /\ main_ret' = IF fn_ret = "None" THEN "False" ELSE "True"
    /\ ds_pc' = "done"
    /\ UNCHANGED <<platform_traces, demo_traces, trace, item, obs_fetches,
                   entry, dataset_items, valid_items, items, idx, uploaded,
                   platform_calls, reported, fn_ret>>
    /\ UNCHANGED genVars

\* ---- the item lists the upload is run on ----
ItemKinds == {"none", "empty", "full", "bare"}

\* The item extracted from the k-th trace: None, one with an empty
\* response, a complete one, or one with a response and nothing else.
ItemOfKind(kind, k) ==
    CASE kind = "none" -> NoneItem
      [] kind = "empty" -> Item(QGlutenDinner, "gluten-free", "", k)
      [] kind = "full" -> Item(QPaleo, "paleo", "Here's a recipe", k)
      [] kind = "bare" -> Item(<<>>, "", "Another recipe", k)

ItemsOfKinds(kinds) == [k \in 1..Len(kinds) |-> ItemOfKind(kinds[k], k)]

\* 12 extracted items of which 2 have an empty response.
TwelveItemsTwoEmpty ==
    ItemsOfKinds([k \in 1..MaxDemoTraces |->
                    IF k \in {3, 8} THEN "empty" ELSE "full"])

ItemLists ==
    {ItemsOfKinds(kinds) : kinds \in SeqsUpTo(ItemKinds, MaxItems)}
        \cup {TwelveItemsTwoEmpty}

(***************************************************************************)
(*                              Specifications                             *)
(***************************************************************************)

\* The Trace Generator's variables when a run starts at position pc with
\* the query file f, the catalog d and the requests g.
GenInit(f, d, g, pc) ==
    /\ queries_file = f
    /\ df = d
    /\ demo_queries = <<>>
    /\ all_generations = g
    /\ traces = <<>>
    /\ agent_calls = <<>>
    /\ gen_pc = pc
    /\ summary = NoSummary
    /\ gen_ret = "unset"
    /\ exit_code = -1

NoFile == [exists |-> FALSE, rows |-> <<>>]

GenIdle == GenInit(NoFile, <<>>, <<>>, "idle")

NoTrace ==
    Trace(0, NoName, InputAbsent, OutputAbsent, Observations(FALSE, <<>>))

\* The Dataset Builder's variables when a run enters en at position pc
\* with the platform holding store, the trace tr to extract, the extracted
\* items ditems and the items its to upload.
DsInit(store, tr, en, ditems, its, pc) ==
    /\ platform_traces = store
    /\ demo_traces = <<>>
    /\ trace = tr
    /\ item = NoneItem
    /\ obs_fetches = <<>>
    /\ entry = en
    /\ dataset_items = ditems
    /\ valid_items = <<>>
    /\ items = its
    /\ idx = 0
    /\ uploaded = <<>>
    /\ platform_calls = <<>>
    /\ reported = -1
    /\ fn_ret = "unset"
    /\ main_ret = "unset"
    /\ ds_pc = pc

DsIdle == DsInit(<<>>, NoTrace, "idle", <<>>, <<>>, "idle")

\* The Trace Generator, run as a script.
Init ==
    /\ \E f \in QueryFiles : GenInit(f, <<>>, <<>>, "load")
    /\ DsIdle

Next ==
    \/ LoadQueries
    \/ SelectQueries
    \/ BuildGenerations
    \/ GenerateNext
    \/ Summarize
    \/ Exit

Spec == Init /\ [][Next]_vars

\* select_demo_queries on any catalog.
InitSelect ==
    /\ \E c \in Catalogs :
         GenInit([exists |-> TRUE, rows |-> c], c, <<>>, "select")
    /\ DsIdle

SpecSelect == InitSelect /\ [][SelectQueries]_vars

\* generate_trace on any request, the agent doing anything it can.
InitGenerateTrace ==
    /\ \E r \in Requests : GenInit(NoFile, <<>>, <<r>>, "generate")
    /\ DsIdle

SpecGenerateTrace == InitGenerateTrace /\ [][CallGenerateTrace]_vars

\* get_demo_traces against any store.
InitFetch ==
    /\ GenIdle
    /\ \E store \in Stores :
         DsInit(store, NoTrace, "get_demo_traces", <<>>, <<>>, "fetch")

SpecFetch == InitFetch /\ [][GetDemoTraces]_vars

\* extract_trace_data on any trace.
InitExtract ==
    /\ GenIdle
    /\ \E tr \in ExtractTraces :
         DsInit(<<>>, tr, "extract_trace_data", <<>>, <<>>, "extract")

SpecExtract == InitExtract /\ [][ExtractTraceData]_vars

\* The upload: main from line 178 on, the items extracted, and
\* create_langfuse_dataset called on any list of items.
InitDataset ==
    /\ GenIdle
    /\ \E its \in ItemLists :
         \/ DsInit(<<>>, NoTrace, "main", its, <<>>, "main_filter")
         \/ DsInit(<<>>, NoTrace, "create_langfuse_dataset", <<>>, its,
                   "create")

NextDataset ==
    \/ MainFilter
    \/ CreateDataset
    \/ UploadItem
    \/ ReportDataset
    \/ MainFinish

SpecDataset == InitDataset /\ [][NextDataset]_vars

(***************************************************************************)
(*                         Properties, Trace Generator                     *)
(***************************************************************************)

\* Whether the catalog d holds a row with identifier i.
InCatalog(d, i) == \E k \in 1..Len(d) : d[k].id = i

\* The identifiers 26, 43, 46, 48 that the catalog d holds, in that order.
PresentIds(d) == SelectSeq(<<26, 43, 46, 48>>, LAMBDA i : InCatalog(d, i))

\* C8: select_demo_queries never raises and returns one record per
\* identifier of {26, 43, 46, 48} present in the catalog, in the order 26,
\* 43, 46, 48, each record a row of the catalog: 4 records when all four are
\* present, fewer than 4 when some are missing, and one record per
\* identifier even when the catalog repeats an id.
C8_SelectOnePerPresentId ==
    /\ gen_pc # "crashed"
    /\ gen_pc = "build" =>
         /\ Len(demo_queries) = Len(PresentIds(df))
         /\ \A k \in 1..Len(demo_queries) :
              /\ demo_queries[k].id = PresentIds(df)[k]
              /\ \E j \in 1..Len(df) : df[j] = demo_queries[k]
         /\ (\A i \in {26, 43, 46, 48} : InCatalog(df, i))
              => Len(demo_queries) = 4
         /\ (\E i \in {26, 43, 46, 48} : ~InCatalog(df, i))
              => Len(demo_queries) < 4
         /\ \A j, k \in 1..Len(demo_queries) :
              demo_queries[j].id = demo_queries[k].id => j = k

\* C8 witness: a catalog that repeats id 26 and lacks id 43 has gone
\* through the selection, which kept one record for 26.
C8_Witness ==
    /\ gen_pc = "build"
    /\ Cardinality({k \in 1..Len(df) : df[k].id = 26}) = 2
    /\ ~InCatalog(df, 43)
    /\ InCatalog(df, 48)
    /\ Len(demo_queries) = 2

\* Whether the k-th call of the agent raised.
AgentRaised(k) == agent_calls[k].outcome.kind = "raise"

\* C1 as stated: whenever the agent raises, generate_trace returns (it does
\* not propagate) a result with success=false, response="" and a non-empty
\* error string.
C1_ErrorNonEmpty ==
    /\ gen_pc # "crashed"
    /\ Len(traces) = Len(agent_calls)
    /\ \A k \in 1..Len(traces) :
         AgentRaised(k) =>
            /\ ~traces[k].success
            /\ traces[k].response = ""
            /\ traces[k].has_error
            /\ traces[k].error # ""

\* C1 amended: whenever the agent raises an Exception, generate_trace
\* returns (it does not propagate) a result with success=false, response=""
\* and error equal to the exception's text, which is empty when the
\* exception carries no message.
C1_ErrorIsExceptionText ==
    /\ gen_pc # "crashed"
    /\ Len(traces) = Len(agent_calls)
    /\ \A k \in 1..Len(traces) :
         AgentRaised(k) =>
            /\ ~traces[k].success
            /\ traces[k].response = ""
            /\ traces[k].has_error
            /\ traces[k].error = agent_calls[k].outcome.text

\* C1 witness: the agent raised an exception with a message on a request,
\* and the result is recorded.
C1_Witness ==
    /\ Len(traces) = 1
    /\ AgentRaised(1)
    /\ agent_calls[1].outcome.text = "boom"
    /\ traces[1].error = "boom"

\* The positions of the assistant messages in the reply to the k-th call.
AssistantPositions(k) ==
    {j \in 1..Len(agent_calls[k].outcome.messages) :
        agent_calls[k].outcome.messages[j].role = "assistant"}

\* C9: whenever the agent returns, generate_trace returns success=true (and
\* no error) with response the content of the first assistant message of
\* the reply, later ones being ignored, and response="" when the reply
\* holds no assistant message.
C9_FirstAssistantMessage ==
    /\ gen_pc # "crashed"
    /\ Len(traces) = Len(agent_calls)
    /\ \A k \in 1..Len(traces) :
         ~AgentRaised(k) =>
            /\ traces[k].success
            /\ ~traces[k].has_error
            /\ AssistantPositions(k) = {} => traces[k].response = ""
            /\ \A j \in AssistantPositions(k) :
                 (\A i \in AssistantPositions(k) : j <= i) =>
                    traces[k].response =
                        agent_calls[k].outcome.messages[j].content

\* C9 witness: the agent replied with two assistant messages of different
\* contents, and the response is the first one's.
C9_Witness ==
    /\ Len(traces) = 1
    /\ ~AgentRaised(1)
    /\ agent_calls[1].outcome.messages =
           <<Msg("assistant", "Here's a recipe"),
             Msg("assistant", "Another recipe")>>
    /\ traces[1].response = "Here's a recipe"

\* Whether main has returned from the summary.
Summarized == gen_pc \in {"returned", "exited"} /\ queries_file.exists

\* The number of agent calls so far that returned, and that raised.
ReturnCount == Cardinality({k \in 1..Len(agent_calls) : ~AgentRaised(k)})
RaiseCount == Cardinality({k \in 1..Len(agent_calls) : AgentRaised(k)})

SomeSuccess == \E k \in 1..Len(traces) : traces[k].success

\* C10: the Trace Generator signals success (main returns True, exit code
\* 0) if and only if at least one request succeeded: it signals failure
\* when the query file is missing, without calling the agent, when none of
\* the four identifiers is in the catalog, and when every request fails.
C10_SuccessIffOneRequestSucceeded ==
    /\ gen_pc # "crashed"
    /\ gen_pc \in {"returned", "exited"} =>
         /\ gen_ret \in {"True", "False"}
         /\ (gen_ret = "True") <=> SomeSuccess
         /\ ~queries_file.exists => gen_ret = "False" /\ agent_calls = <<>>
         /\ PresentIds(df) = <<>> => gen_ret = "False"
         /\ (\A k \in 1..Len(agent_calls) : AgentRaised(k))
              => gen_ret = "False"
    /\ gen_pc = "exited" =>
         /\ exit_code \in {0, 1}
         /\ (exit_code = 0) <=> SomeSuccess
    /\ gen_pc \notin {"exited", "crashed"} => exit_code = -1

\* C10 witness: a run has exited with code 0 after a single request
\* succeeded and all the others failed.
C10_Witness ==
    /\ gen_pc = "exited"
    /\ exit_code = 0
    /\ Len(traces) = 12
    /\ Cardinality({k \in 1..Len(traces) : traces[k].success}) = 1

(***************************************************************************)
(*                         Properties, Dataset Builder                     *)
(***************************************************************************)

\* The positions, among the at most 20 traces fetched, of the traces whose
\* name is set and starts with "Query:".
DemoPositions ==
    {k \in 1..Len(platform_traces) :
        /\ k <= 20
        /\ platform_traces[k].name.t = "str"
        /\ Len(platform_traces[k].name.s) >= 6
        /\ SubSeq(platform_traces[k].name.s, 1, 6)
               = <<"Q", "u", "e", "r", "y", ":">>}

\* The j-th smallest element of the set of positions P.
NthPosition(P, j) ==
    CHOOSE k \in P : Cardinality({m \in P : m <= k}) = j

\* C5: get_demo_traces returns, of the at most 20 traces fetched, those
\* whose name is set and starts with "Query:", in fetch order, cut to the
\* first 12; a trace with another name or none is never returned; when the
\* platform call raises it returns an empty list and does not propagate.
C5_FirstTwelveDemoTracesInOrder ==
    /\ ds_pc # "crashed"
    /\ ds_pc = "fetched" =>
         /\ Len(platform_calls) = 1
         /\ platform_calls[1].outcome = "raise" => demo_traces = <<>>
         /\ platform_calls[1].outcome = "ok" =>
              /\ Len(demo_traces) = Min(12, Cardinality(DemoPositions))
              /\ \A j \in 1..Len(demo_traces) :
                   demo_traces[j] =
                       platform_traces[NthPosition(DemoPositions, j)]

\* C5 witness: of 20 or more traces, more than 12 are demo traces and one
\* among the first 12 is not; 12 were returned, the trace after the odd one
\* having moved up.
C5_Witness ==
    /\ ds_pc = "fetched"
    /\ platform_calls[1].outcome = "ok"
    /\ Len(platform_traces) > 20
    /\ Cardinality(DemoPositions) > 12
    /\ 5 \notin DemoPositions
    /\ Len(demo_traces) = 12
    /\ demo_traces[5].id = 6
    /\ demo_traces[12].id = 13

\* Whether entry e is a dict whose role is "user".
IsUserEntry(e) == e.t = "dict" /\ e.has_role /\ e.role = "user"

\* Whether the trace's input is a dict with a "messages" key.
HasMessages == trace.input.t = "dict" /\ trace.input.has_messages

\* Whether the trace's messages hold no message with role "user".
NoUserMessage ==
    \A k \in 1..Len(trace.input.messages.entries) :
        ~IsUserEntry(trace.input.messages.entries[k])

\* Whether reading the trace's messages fails: their value cannot be
\* iterated, or an entry that is no dict comes before any user message.
ReadingFails ==
    /\ HasMessages
    /\ \/ ~trace.input.messages.iterable
       \/ \E k \in 1..Len(trace.input.messages.entries) :
            /\ trace.input.messages.entries[k].t # "dict"
            /\ \A j \in 1..(k - 1) :
                 ~IsUserEntry(trace.input.messages.entries[j])

\* Whether the trace's output is absent or no dict.
NoDictOutput == trace.output.t # "dict"

\* C6 as stated: extract_trace_data never raises and always yields a
\* record; the record's query is "" when the input is absent, is no dict
\* with a "messages" key, holds no user message, or cannot be read (a
\* malformed message entry included); its response is "" when the output is
\* absent or no dict.
C6_AlwaysARecord ==
    /\ ds_pc # "crashed"
    /\ ds_pc = "extracted" =>
         /\ ~item.none
         /\ (~HasMessages \/ NoUserMessage \/ ReadingFails)
              => item.query = <<>>
         /\ NoDictOutput => item.response = ""

\* C6 amended: extract_trace_data never raises.  When reading the messages
\* fails (their value cannot be iterated, or an entry that is no dict comes
\* before any user message) it returns None, no record.  Otherwise it
\* yields a record carrying the trace's id, whose query is "" when the
\* input is absent, is no dict with a "messages" key or holds no user
\* message, and whose response is "" when the output is absent or no dict.
C6_RecordUnlessReadingFails ==
    /\ ds_pc # "crashed"
    /\ ds_pc = "extracted" =>
         /\ ReadingFails => item.none
         /\ ~ReadingFails =>
              /\ ~item.none
              /\ item.trace_id = trace.id
              /\ (~HasMessages \/ NoUserMessage) => item.query = <<>>
              /\ NoDictOutput => item.response = ""

\* C6 witness: a trace whose first message entry is no dict, followed by a
\* user message, and whose output holds a response, was extracted to None.
C6_Witness ==
    /\ ds_pc = "extracted"
    /\ HasMessages
    /\ trace.input.messages.entries =
           <<StrEntry, DictEntry(TRUE, "user", TRUE, QPaleo)>>
    /\ trace.output = OutputContent("Here's a recipe")
    /\ item.none

\* The restriction read from the observation fetched, "" when none was
\* fetched, the fetch failed, or the metadata holds none.
MetadataRestriction ==
    IF /\ obs_fetches # <<>>
       /\ obs_fetches[1].outcome.kind = "return"
       /\ obs_fetches[1].outcome.metadata.t = "dict"
       /\ obs_fetches[1].outcome.metadata.has_dr
    THEN obs_fetches[1].outcome.metadata.dr
    ELSE ""

\* The restriction the keywords give each user query of the traces, tested
\* in the order gluten, sugar-free, vegetarian, paleo on the lowercased
\* query.
KeywordRestriction(q) ==
    CASE q = QGlutenDinner -> "gluten-free"
      [] q = QSugarVegetarian -> "sugar-free"
      [] q = QPaleoGluten -> "gluten-free"
      [] q = QVegetarianPaleo -> "vegetarian"
      [] q = QPaleo -> "paleo"
      [] q = QSugarNoHyphen -> ""
      [] q = <<>> -> ""

\* C7: the dietary_restriction of the record extract_trace_data returns is
\* the dietary_restriction metadata of the trace's first observation when
\* fetching it succeeds and the value is non-empty; otherwise (a failed
\* fetch is swallowed) the first keyword of gluten, sugar-free, vegetarian,
\* paleo found in the lowercased query gives "gluten-free", "sugar-free",
\* "vegetarian" or "paleo"; otherwise it is "".  Only the first observation
\* is fetched, and at most once.
C7_RestrictionFromMetadataThenKeywords ==
    /\ ds_pc # "crashed"
    /\ Len(obs_fetches) <= 1
    /\ obs_fetches # <<>> =>
         /\ trace.observations.present
         /\ obs_fetches[1].obs_id = trace.observations.ids[1]
    /\ ds_pc = "extracted" /\ ~item.none =>
         /\ (trace.observations.present /\ trace.observations.ids # <<>>)
              => Len(obs_fetches) = 1
         /\ MetadataRestriction # ""
              => item.dietary_restriction = MetadataRestriction
         /\ MetadataRestriction = ""
              => item.dietary_restriction = KeywordRestriction(item.query)

\* C7 witness: the query is "I need a gluten-free dinner", the fetch of the
\* first of two observations raised, and the restriction is "gluten-free".
C7_Witness ==
    /\ ds_pc = "extracted"
    /\ ~item.none
    /\ item.query = QGlutenDinner
    /\ trace.observations.ids = <<1, 2>>
    /\ obs_fetches = <<ObsFetch(1, ObsRaises)>>
    /\ item.dietary_restriction = "gluten-free"

\* The positions of the items handed to create_langfuse_dataset that are
\* not None and have a non-empty response, among the first n.
ValidPositions(n) ==
    {k \in 1..Len(items) :
        k <= n /\ ~items[k].none /\ items[k].response # ""}

\* Whether some platform write call of the run raised.
WriteRaised ==
    \E k \in 1..Len(platform_calls) : platform_calls[k].outcome = "raise"

\* C3: every dataset item uploaded has a non-empty response; items that
\* are None or have an empty response are skipped without error; and the
\* count reported at the end is the number of items uploaded, which are the
\* valid items in their order (12 items of which 2 have an empty response
\* give 10 uploads and a reported count of 10).
C3_OnlyNonEmptyResponsesUploaded ==
    /\ ds_pc # "crashed"
    /\ \A k \in 1..Len(uploaded) : uploaded[k].input.response # ""
    /\ fn_ret = "None" => WriteRaised
    /\ reported # -1 => fn_ret = "dataset"
    /\ fn_ret = "dataset" =>
         /\ reported = Len(uploaded)
         /\ Len(uploaded) = Cardinality(ValidPositions(Len(items)))
         /\ \A j \in 1..Len(uploaded) :
              LET it == items[NthPosition(ValidPositions(Len(items)), j)]
              IN  /\ uploaded[j].input =
                         [query |-> it.query,
                          dietary_restriction |-> it.dietary_restriction,
                          response |-> it.response]
                  /\ uploaded[j].metadata.source_trace_id = it.trace_id
         /\ items = TwelveItemsTwoEmpty =>
              reported = 10 /\ Len(uploaded) = 10

\* C3 witness: create_langfuse_dataset was handed 12 items of which 2 have
\* an empty response, uploaded 10 and reported 10.
C3_Witness ==
    /\ entry = "create_langfuse_dataset"
    /\ Len(items) = 12
    /\ Cardinality({k \in 1..12 : items[k].response = ""}) = 2
    /\ fn_ret = "dataset"
    /\ reported = 10
    /\ Len(uploaded) = 10

\* C4: when the platform raises during create_langfuse_dataset, at the
\* dataset creation or at an item upload, the function stops there (the
\* raising call is its last platform call), returns None instead of
\* propagating and reports no count, and main returns False; the items
\* uploaded before the exception stay in the platform and no item from the
\* failing one on is uploaded.
C4_FailureStopsWithoutRollback ==
    /\ ds_pc # "crashed"
    /\ WriteRaised <=> fn_ret = "None"
    /\ fn_ret = "None" =>
         LET last == platform_calls[Len(platform_calls)]
         IN  /\ ds_pc \in {"returned", "done"}
             /\ last.outcome = "raise"
             /\ \A k \in 1..(Len(platform_calls) - 1) :
                  platform_calls[k].outcome = "ok"
             /\ reported = -1
             /\ last.call = "create_dataset" => uploaded = <<>>
             /\ last.call = "create_dataset_item" =>
                  /\ Len(uploaded) = Cardinality(ValidPositions(last.arg - 1))
                  /\ \A j \in 1..Len(uploaded) :
                       uploaded[j].metadata.source_trace_id =
                           items[NthPosition(ValidPositions(last.arg - 1), j)]
                               .trace_id
             /\ ds_pc = "done" => main_ret = "False"
    /\ (ds_pc = "done" /\ fn_ret = "dataset") => main_ret = "True"

\* C4 witness: main's upload failed at the third of four items; the two
\* items uploaded before are in the platform and main returned False.
C4_Witness ==
    /\ entry = "main"
    /\ ds_pc = "done"
    /\ fn_ret = "None"
    /\ main_ret = "False"
    /\ Len(items) = 4
    /\ platform_calls[Len(platform_calls)] =
           PlatformCall("create_dataset_item", 3, "raise")
    /\ Len(uploaded) = 2

=============================================================================
